---------------------------- MODULE Spec2Model ----------------------------
(***************************************************************************)
(* ReusableGenerator (src/index.ts): a memoizing wrapper around a one-shot *)
(* iterator.  Every wrapper keeps the results it has pulled so far and a   *)
(* map of cursor identities to read offsets; use() and rest() build a new  *)
(* wrapper whose own iterator is childGenerator(parent, id).               *)
(*                                                                         *)
(* Wrappers are numbered 1..nW in order of construction; wrapper Root is   *)
(* reusable(producer), every other wrapper comes from use() or rest().     *)
(* The identity object of wrapper w (Object.create(null)) is w itself: it  *)
(* is the key of w's cursor in its parent's descriptors and the key of w's *)
(* primary cursor in w's own descriptors.                                  *)
(*                                                                         *)
(* A method such as map() or skip() builds a wrapper around a generator    *)
(* that reads a use() handle of the receiver; that handle (src) lives in   *)
(* the generator's closure and is a wrapper like any other, except that    *)
(* nothing outside the closure can call it.                                *)
(***************************************************************************)
EXTENDS Integers, Sequences, FiniteSets

\* ------------------------------------------------------------------ bounds
MaxLen == 2       \* longest output of the wrapped producer
MaxHandles == 3   \* wrappers alive at once (the root and its descendants)
MaxCalls == 4     \* cap on the instrumented producer's invocation counter
MaxThrows == 1    \* producer invocations that may throw
WideLen == 1      \* SpecWide: longest output of the wrapped producer
WideHandles == 4  \* SpecWide: wrappers alive at once
WideCalls == 1    \* SpecWide: cap on the producer's invocation counter
CombHandles == 4  \* SpecComb: wrappers alive at once, closure-held ones included
MaxSkip == 2      \* SpecComb: largest argument of skip()
PipeLen == 3      \* SpecPipe: longest output of the wrapped producer
PipeArg == 2      \* SpecPipe: largest argument of take(), skip() and slice()
PipeCalls == 4    \* SpecPipe: cap on the producer's invocation counter
PipeHandles == 6  \* SpecPipe: wrappers alive at once, closure-held ones included
ZipLen == 2       \* SpecZip: longest output of the wrapped producer
ZipCalls == 4     \* SpecZip: cap on the producer's invocation counter
ZipHandles == 4   \* SpecZip: wrappers alive at once, closure-held ones included
TakeLen == 3      \* SpecTake: longest output of a wrapped producer that ends
TakeArg == 2      \* SpecTake: largest argument of take()
TakeCalls == 4    \* SpecTake: cap on the producer invocations made for the receiver's own steps
DrainLen == 2     \* SpecDrain: longest output of a wrapped producer that ends
DrainHandles == 2 \* SpecDrain: wrappers alive at once

Root == 1

\* The wrappers of the README's overview (README.md:124-143), numbered in the
\* order the script constructs them.
ReadmeLen == 5
ReadmeFoo == 2
ReadmeBar == 3
ReadmeBase == 4
ReadmeRest == 5
ReadmeRestUse == 6

\* room for the wrappers of the widest specification
Capacity ==
  LET S == {MaxHandles, WideHandles, CombHandles, PipeHandles, ZipHandles,
           DrainHandles, ReadmeRestUse}
  IN  CHOOSE n \in S : \A m \in S : m <= n

VARIABLES
  V,            \* what the producer has left to yield when it is wrapped (payloads)
  gpos,         \* values the producer has yielded so far
  calls,        \* instrumentation: invocations of producer.next() by the wrapper
  doneCalls,    \* instrumentation: those invocations that reported done
  nW,           \* number of wrappers constructed
  parent,       \* parent[w]: the wrapper w's childGenerator reads (0 for Root)
  born,         \* born[w]: how w was made and what its maker looked like then
  results,      \* results[w]: this.results
  descriptors,  \* descriptors[w]: this.descriptors, identity -> offset
  genDone,      \* genDone[w]: w's generator (this.gen) has returned or thrown
  yielded,      \* yielded[w]: the values w.next() has returned, in order
  ended,        \* ended[w]: w.next() has reported done at least once
  throws,       \* instrumentation: invocations of producer.next() that threw
  threw,        \* threw[w]: the latest call of w.next() threw
  gen,          \* gen[w]: the generator w was constructed around (this.gen)
  started,      \* started[w]: w's generator has run past its first statement
  local,        \* local[w]: the variable w's generator updates (idx, acc)
  pc            \* position of a scripted scenario ("free": no script)

vars == <<V, gpos, calls, doneCalls, nW, parent, born, results,
          descriptors, genDone, yielded, ended, throws, threw, gen, started,
          local, pc>>

Handles == 1..Capacity
Live == 1..nW

\* --------------------------------------------------------- iterator results
\* A value the producer yields is an object: obj is its identity (the ordinal
\* of the yield that created it), val its payload.
Undefined == [obj |-> 0, val |-> 0]
ValueResult(v) == [kind |-> "value", value |-> v]
DoneResult == [kind |-> "done", value |-> Undefined]
\* an array read past the end of results gives undefined, not an IteratorResult
UndefinedResult == [kind |-> "undefined", value |-> Undefined]
\* an exception leaves the call (the producer threw, or result.done was read
\* from undefined)
ThrowResult == [kind |-> "throw", value |-> Undefined]

\* this.descriptors.get(id) ?? 0
DescriptorGet(d, id) == IF id \in DOMAIN d THEN d[id] ELSE 0

\* this.descriptors.set(id, n)
DescriptorSet(d, id, n) == [k \in (DOMAIN d) \cup {id} |-> IF k = id THEN n ELSE d[k]]

\* this.results[idx]
ArrayGet(a, idx) == IF idx < Len(a) THEN a[idx + 1] ELSE UndefinedResult

\* The mutable part of the program state, threaded through a call chain.
State == [results |-> results, descriptors |-> descriptors, genDone |-> genDone,
          gpos |-> gpos, calls |-> calls, doneCalls |-> doneCalls,
          throws |-> throws, started |-> started, local |-> local,
          fail |-> FALSE]

\* The same state with a producer that throws at its next invocation.
Faulty == [State EXCEPT !.fail = TRUE]

\* One call of next() on the wrapped producer, an iterator over V.  A producer
\* that was exhausted before it was wrapped has V = <<>>.  A call that throws
\* yields nothing; the iterator is as it was before the call.
producer_next(st) ==
  IF st.fail
    THEN [st  |-> [st EXCEPT !.calls = @ + 1, !.throws = @ + 1, !.fail = FALSE],
          res |-> ThrowResult]
  ELSE IF st.gpos < Len(V)
    THEN [st  |-> [st EXCEPT !.gpos = @ + 1, !.calls = @ + 1],
          res |-> ValueResult([obj |-> st.gpos + 1, val |-> V[st.gpos + 1]])]
    ELSE [st  |-> [st EXCEPT !.calls = @ + 1, !.doneCalls = @ + 1],
          res |-> DoneResult]

\* One call of next() on a wrapped generator that never returns (an infinite
\* list): it yields a new object at every call.
endless_next(st) ==
  [st  |-> [st EXCEPT !.gpos = @ + 1, !.calls = @ + 1],
   res |-> ValueResult([obj |-> st.gpos + 1, val |-> st.gpos + 1])]

RECURSIVE request(_, _, _), gen_next(_, _), skipLoop(_, _, _)
RECURSIVE skipWhileLoop(_, _), zipOthers(_, _, _, _), zipOthersUntilDone(_, _, _, _)

\* A request() that keys every cursor by the wrapper's own identity (this.id).
CursorKeyShared(w, id) == w

\* The cursor key request() reads and writes.
CursorKey(w, id) == id

\* A request() that records the cursor's advance before looking at result.done.
PulledAdvance(g, w, id, idx) ==
  IF g.res.kind = "value"
    THEN [st  |-> [g.st EXCEPT !.results[w] = Append(@, g.res),
                               !.descriptors[w] = DescriptorSet(@, id, idx + 1)],
          res |-> g.res]
    ELSE [st  |-> [g.st EXCEPT !.descriptors[w] = DescriptorSet(@, id, idx + 1)],
          res |-> g.res]

\* A request() that returns the pulled value without pushing it to this.results.
PulledNoPush(g, w, id, idx) ==
  IF g.res.kind = "value"
    THEN [st  |-> [g.st EXCEPT !.descriptors[w] = DescriptorSet(@, id, idx + 1)],
          res |-> g.res]
    ELSE g

\* A request() that pushes the result before looking at result.done.
PulledPushDone(g, w, id, idx) ==
  IF g.res.kind \in {"value", "done"}
    THEN [st  |-> [g.st EXCEPT !.results[w] = Append(@, g.res),
                               !.descriptors[w] = DescriptorSet(@, id, idx + 1)],
          res |-> g.res]
    ELSE g

\* What request() does with a result pulled at the frontier.
Pulled(g, w, id, idx) ==
  IF g.res.kind = "value"
    THEN [st  |-> [g.st EXCEPT !.results[w] = Append(@, g.res),
                               !.descriptors[w] = DescriptorSet(@, id, idx + 1)],
          res |-> g.res]
    ELSE g

\* What request() does when idx is not the frontier.
Cached(st, w, id, idx) ==
  [st  |-> [st EXCEPT !.descriptors[w] = DescriptorSet(@, id, idx + 1)],
   res |-> ArrayGet(st.results[w], idx)]

\* A request() that pulls from this.gen on every call, cached index or not.
requestNoCache(st, w, id0) ==
  LET id  == CursorKey(w, id0)
      idx == DescriptorGet(st.descriptors[w], id)
  IN  Pulled(gen_next(st, w), w, id, idx)

\* ReusableGenerator.request(id) on wrapper w
request(st, w, id0) ==
  LET id  == CursorKey(w, id0)
      idx == DescriptorGet(st.descriptors[w], id)
  IN  IF Len(st.results[w]) = idx
        THEN Pulled(gen_next(st, w), w, id, idx)
        ELSE Cached(st, w, id, idx)

\* One resumption of childGenerator(parent[w], w) that has not returned yet.
childGenerator(st, w) ==
  LET r == request(st, parent[w], w)
  IN  CASE r.res.kind = "value" -> r
        [] r.res.kind = "done"  -> [st  |-> [r.st EXCEPT !.genDone[w] = TRUE],
                                    res |-> DoneResult]
        [] OTHER                -> [st  |-> [r.st EXCEPT !.genDone[w] = TRUE],
                                    res |-> ThrowResult]

\* the callback given to map(); the result is a new object for each value
transform(v) == [obj |-> v.obj, val |-> v.val + 1]

\* One resumption of the generator of map(): the next turn of its for-of loop
\* over src (parent[w]), which steps src's own cursor.
mapGenerator(st, w) ==
  LET r == request(st, parent[w], parent[w])
  IN  CASE r.res.kind = "value" -> [st  |-> r.st,
                                    res |-> ValueResult(transform(r.res.value))]
        [] r.res.kind = "done"  -> [st  |-> [r.st EXCEPT !.genDone[w] = TRUE],
                                    res |-> DoneResult]
        [] OTHER                -> [st  |-> [r.st EXCEPT !.genDone[w] = TRUE],
                                    res |-> ThrowResult]

\* A skip() whose generator does not run its loop.
skipLoopNone(st, src, i) == [st |-> st, res |-> DoneResult]

\* The loop of skip()'s generator with i turns left: src.next() until it is
\* done.  The result is the last one seen (a throw leaves the loop).
skipLoop(st, src, i) ==
  IF i = 0
    THEN [st |-> st, res |-> DoneResult]
    ELSE LET r == request(st, src, src)
         IN  IF r.res.kind = "value" THEN skipLoop(r.st, src, i - 1) ELSE r

\* yield* over the wrapper src.rest() returned, which skip()'s generator
\* keeps in its closure: wrapper w + 1.
skipDelegate(st, w) ==
  LET r == request(st, w + 1, w + 1)
  IN  CASE r.res.kind = "value" -> r
        [] r.res.kind = "done"  -> [st  |-> [r.st EXCEPT !.genDone[w] = TRUE],
                                    res |-> DoneResult]
        [] OTHER                -> [st  |-> [r.st EXCEPT !.genDone[w] = TRUE],
                                    res |-> ThrowResult]

\* One resumption of the generator of skip(n).  The first one runs the loop,
\* calls src.rest() (which records the history length of src for the new
\* identity w + 1) and starts the delegation; later ones continue it.
skipGenerator(st, w) ==
  IF st.started[w]
    THEN skipDelegate(st, w)
    ELSE LET src == parent[w]
             l   == skipLoop(st, src, gen[w].n)
         IN  IF l.res.kind \notin {"value", "done"}
               THEN [st  |-> [l.st EXCEPT !.genDone[w] = TRUE], res |-> ThrowResult]
               ELSE skipDelegate(
                      [l.st EXCEPT !.started[w] = TRUE,
                                   !.descriptors[src] =
                                      DescriptorSet(@, w + 1, Len(l.st.results[src]))],
                      w)

\* The result a generator's resumption hands to its caller: a value it yields,
\* or its end (it returned, or an exception left it).
Resumed(r, w) ==
  CASE r.res.kind = "value" -> r
    [] r.res.kind = "done"  -> [st  |-> [r.st EXCEPT !.genDone[w] = TRUE],
                                res |-> DoneResult]
    [] OTHER                -> [st  |-> [r.st EXCEPT !.genDone[w] = TRUE],
                                res |-> ThrowResult]

\* function* () {}, and the iterator of the empty array given to from([])
emptyGenerator(st, w) == Resumed([st |-> st, res |-> DoneResult], w)

\* A take() that never leaves its loop early.
TakeBreaksNever(idx, n) == FALSE

\* if (idx >= n) break
TakeBreaks(idx, n) == idx >= n

\* One resumption of the generator of take(n), n > 0.  Resumed at its yield it
\* counts the value it yielded and leaves the loop when that was the n-th;
\* otherwise the for-of loop asks src for its next value.
takeGenerator(st, w) ==
  LET idx == IF st.started[w] THEN st.local[w] + 1 ELSE st.local[w]
      s1  == [st EXCEPT !.local[w] = idx]
  IN  IF st.started[w] /\ TakeBreaks(idx, gen[w].n)
        THEN Resumed([st |-> s1, res |-> DoneResult], w)
        ELSE LET r == request(s1, parent[w], parent[w])
             IN  Resumed([st |-> [r.st EXCEPT !.started[w] = TRUE], res |-> r.res], w)

\* the callback given to skipWhile()
predicate(v) == v.val = 1

\* The for-of loop of skipWhile()'s generator: src.next() until a value fails
\* the predicate (the result is that value) or src is done.
skipWhileLoop(st, src) ==
  LET r == request(st, src, src)
  IN  IF r.res.kind = "value" /\ predicate(r.res.value)
        THEN skipWhileLoop(r.st, src)
        ELSE r

\* A src.rest() that starts the new cursor at the beginning.
ForkFromStart(st, w) ==
  [st EXCEPT !.descriptors[parent[w]] = DescriptorSet(@, w + 1, 0)]

\* src.rest() in the generator of wrapper w, which keeps the new wrapper
\* (w + 1) in its closure
Fork(st, w) ==
  [st EXCEPT !.descriptors[parent[w]] =
                DescriptorSet(@, w + 1, Len(st.results[parent[w]]))]

\* One resumption of the generator of skipWhile().  local[w] = 1 once the
\* generator is past its loop, delegating to src.rest(); before that,
\* started[w] tells that it is suspended at the yield inside the loop.
skipWhileGenerator(st, w) ==
  IF st.local[w] = 1
    THEN skipDelegate(st, w)
  ELSE IF st.started[w]
    THEN skipDelegate(Fork([st EXCEPT !.local[w] = 1], w), w)
    ELSE LET l == skipWhileLoop(st, parent[w])
         IN  CASE l.res.kind = "value" ->
                    [st |-> [l.st EXCEPT !.started[w] = TRUE], res |-> l.res]
               [] l.res.kind = "done"  ->
                    skipDelegate(
                      Fork([l.st EXCEPT !.started[w] = TRUE, !.local[w] = 1], w), w)
               [] OTHER -> Resumed(l, w)

\* A zip() that stops stepping the given iterators at the first that is done.
zipOthersUntilDone(st, others, k, seen) ==
  IF k > Len(others)
    THEN [st |-> st, res |-> DoneResult, seen |-> seen]
    ELSE LET r == request(st, others[k], others[k])
         IN  IF r.res.kind = "value"
               THEN zipOthersUntilDone(r.st, others, k + 1, Append(seen, r.res))
             ELSE IF r.res.kind = "done"
               THEN [st |-> r.st, res |-> DoneResult, seen |-> Append(seen, r.res)]
               ELSE [st |-> r.st, res |-> ThrowResult, seen |-> seen]

\* others.map((i) => i.next()) from the k-th iterator on: every iterator is
\* stepped, whatever the ones before it returned
zipOthers(st, others, k, seen) ==
  IF k > Len(others)
    THEN [st |-> st, res |-> DoneResult, seen |-> seen]
    ELSE LET r == request(st, others[k], others[k])
         IN  IF r.res.kind \in {"value", "done"}
               THEN zipOthers(r.st, others, k + 1, Append(seen, r.res))
               ELSE [st |-> r.st, res |-> ThrowResult, seen |-> seen]

\* A zip() that looks at the result of the first given iterator only.
SomeDoneFirst(seen) == seen[1].kind = "done"

\* results.some((r) => r.done)
SomeDone(seen) == \E k \in 1..Len(seen) : seen[k].kind = "done"

\* [value, ...values]: a new array holding the given values
Tuple(vs) == [obj |-> [i \in 1..Len(vs) |-> vs[i].obj],
              val |-> [i \in 1..Len(vs) |-> vs[i].val]]

\* One resumption of the generator of zip(...others): the next turn of its
\* for-of loop over src.  gen[w].n holds others.
zipGenerator(st, w) ==
  LET r == request(st, parent[w], parent[w])
  IN  IF r.res.kind # "value"
        THEN Resumed(r, w)
        ELSE LET o == zipOthers(r.st, gen[w].n, 1, <<>>)
             IN  IF o.res.kind = "throw"
                   THEN Resumed([st |-> o.st, res |-> ThrowResult], w)
                 ELSE IF SomeDone(o.seen)
                   THEN Resumed([st |-> o.st, res |-> DoneResult], w)
                   ELSE [st  |-> o.st,
                         res |-> ValueResult(Tuple(<<r.res.value>> \o
                                   [k \in 1..Len(o.seen) |-> o.seen[k].value]))]

\* the callback and the initial value given to scanWith(); an accumulator is
\* a number, with no identity
scanner(acc, curr) == acc + curr.val

ScanInit == 0

Number(n) == [obj |-> 0, val |-> n]

\* One resumption of the generator of scanWith(scanner, init): `let acc =
\* init` when it is first resumed, then the next turn of its for-of loop.
scanWithGenerator(st, w) ==
  LET acc == IF st.started[w] THEN st.local[w] ELSE ScanInit
      r   == request([st EXCEPT !.started[w] = TRUE, !.local[w] = acc],
                     parent[w], parent[w])
  IN  IF r.res.kind # "value"
        THEN Resumed(r, w)
        ELSE LET next_acc == scanner(acc, r.res.value)
             IN  [st  |-> [r.st EXCEPT !.local[w] = next_acc],
                  res |-> ValueResult(Number(next_acc))]

\* An adapter that does not remember that it has returned.
FinishedNever(st, w) == FALSE

\* A generator that has returned, or that an exception has left, reports done
\* without running its body.
Finished(st, w) == st.genDone[w]

\* this.gen.next() on wrapper w
gen_next(st, w) ==
  IF w = Root
    THEN IF gen[w].kind = "endless" THEN endless_next(st) ELSE producer_next(st)
  ELSE IF Finished(st, w) THEN [st |-> st, res |-> DoneResult]
  ELSE CASE gen[w].kind = "map"       -> mapGenerator(st, w)
         [] gen[w].kind = "skip"      -> skipGenerator(st, w)
         [] gen[w].kind = "empty"     -> emptyGenerator(st, w)
         [] gen[w].kind = "take"      -> takeGenerator(st, w)
         [] gen[w].kind = "skipWhile" -> skipWhileGenerator(st, w)
         [] gen[w].kind = "zip"       -> zipGenerator(st, w)
         [] gen[w].kind = "scanWith"  -> scanWithGenerator(st, w)
         [] OTHER                     -> childGenerator(st, w)

\* ------------------------------------------------------------------- Init
\* The producers wrapped: generators of 0..MaxLen values.  The payload is the
\* position, except that the second value repeats the first payload, so equal
\* payloads still are different objects.
PayloadOf(i) == IF i = 2 THEN 1 ELSE i

Producers == {[i \in 1..k |-> PayloadOf(i)] : k \in 0..MaxLen}

\* a generator handed to the constructor: its kind, the argument its closure
\* holds, and whether the wrapper around it is held in a closure only
Gen(kind, n, private) == [kind |-> kind, n |-> n, private |-> private]

\* the state after reusable(producer), the producer aside
Fresh ==
  /\ gpos = 0
  /\ calls = 0
  /\ doneCalls = 0
  /\ throws = 0
  /\ nW = 1
  /\ parent = [w \in Handles |-> 0]
  /\ born = [w \in Handles |-> [how |-> "none", off |-> 0, len |-> 0, own |-> 0, late |-> FALSE]]
  /\ gen = [w \in Handles |-> IF w = Root THEN Gen("producer", 0, FALSE)
                                           ELSE Gen("none", 0, FALSE)]
  /\ results = [w \in Handles |-> <<>>]
  /\ descriptors = [w \in Handles |-> <<>>]
  /\ genDone = [w \in Handles |-> FALSE]
  /\ started = [w \in Handles |-> FALSE]
  /\ local = [w \in Handles |-> 0]
  /\ yielded = [w \in Handles |-> <<>>]
  /\ ended = [w \in Handles |-> FALSE]
  /\ threw = [w \in Handles |-> FALSE]

Init ==
  /\ V \in Producers
  /\ Fresh
  /\ pc = "free"

\* ---------------------------------------------------------------- actions
\* A rest() that starts the new cursor at the wrapper's own cursor.
RestOffsetOwn(w) == DescriptorGet(descriptors[w], w)

\* A rest() that forgets to record an offset, so the new cursor starts at 0.
RestOffsetZero(w) == 0

\* A rest() that is off by one.
RestOffsetPrev(w) == IF Len(results[w]) > 0 THEN Len(results[w]) - 1 ELSE 0

\* the offset rest() records for the new identity
RestOffset(w) == Len(results[w])

\* What is known of a handle's making: how it was made, the offset its cursor
\* got in the maker, whether the producer had reported done by then and, for
\* rest(), the maker's history length and own cursor offset at the call.
Birth(how, w, off) ==
  [how  |-> how,
   off  |-> off,
   len  |-> IF how = "rest" THEN Len(results[w]) ELSE 0,
   own  |-> IF how = "rest" THEN DescriptorGet(descriptors[w], w) ELSE 0,
   late |-> doneCalls > 0]

\* the wrappers a caller can hold
Public(w) == w \in Live /\ ~gen[w].private

\* w.use()
use(w) ==
  /\ nW' = nW + 1
  /\ parent' = [parent EXCEPT ![nW + 1] = w]
  /\ born' = [born EXCEPT ![nW + 1] = Birth("use", w, 0)]
  /\ gen' = [gen EXCEPT ![nW + 1] = Gen("child", 0, FALSE)]
  /\ UNCHANGED <<V, gpos, calls, doneCalls, throws, results, descriptors,
                 genDone, started, local, yielded, ended, threw>>

\* w.rest()
rest(w) ==
  /\ nW' = nW + 1
  /\ parent' = [parent EXCEPT ![nW + 1] = w]
  /\ descriptors' = [descriptors EXCEPT ![w] = DescriptorSet(@, nW + 1, RestOffset(w))]
  /\ born' = [born EXCEPT ![nW + 1] = Birth("rest", w, RestOffset(w))]
  /\ gen' = [gen EXCEPT ![nW + 1] = Gen("child", 0, FALSE)]
  /\ UNCHANGED <<V, gpos, calls, doneCalls, throws, results, genDone, started,
                 local, yielded, ended, threw>>

\* the call chain's state written back
Stored(st) ==
  /\ results' = st.results
  /\ descriptors' = st.descriptors
  /\ genDone' = st.genDone
  /\ started' = st.started
  /\ local' = st.local
  /\ gpos' = st.gpos
  /\ calls' = st.calls
  /\ doneCalls' = st.doneCalls
  /\ throws' = st.throws

\* the generator of wrapper w has called src.rest()
Forked(st, w) ==
  CASE gen[w].kind = "skip"      -> st.started[w]
    [] gen[w].kind = "skipWhile" -> st.local[w] = 1
    [] OTHER                     -> FALSE

\* What is known of the making of the wrappers a call chain constructed: the
\* src.rest() of every skip() or skipWhile() generator that got there.
BornAfter(st) ==
  [x \in Handles |->
     IF x > 1 /\ ~Forked(State, x - 1) /\ Forked(st, x - 1)
       THEN LET src == parent[x]
                off == DescriptorGet(st.descriptors[src], x) - Len(st.results[x])
            IN  [how |-> "rest", off |-> off, len |-> off,
                 own |-> DescriptorGet(st.descriptors[src], src),
                 late |-> st.doneCalls > 0]
       ELSE born[x]]

\* A next() that starts over at index 0 on every call.
NextOutcomeRestart(w) ==
  request([State EXCEPT !.descriptors[w] = DescriptorSet(@, w, 0)], w, w)

\* the outcome of w.next(): request(this.id)
NextOutcome(w) == request(State, w, w)

\* a call of w.next() with outcome o has returned (or thrown) to its caller
Returned(o, w) ==
  /\ Stored(o.st)
  /\ born' = BornAfter(o.st)
  /\ yielded' = IF o.res.kind = "value"
                  THEN [yielded EXCEPT ![w] = Append(@, o.res.value)]
                  ELSE yielded
  /\ ended' = IF o.res.kind = "done" THEN [ended EXCEPT ![w] = TRUE] ELSE ended
  /\ threw' = [threw EXCEPT ![w] = (o.res.kind = "throw")]
  /\ UNCHANGED <<V, nW, parent, gen>>

\* w.next()
next(w) == Returned(NextOutcome(w), w)

Next ==
  \/ \E w \in Live : nW < MaxHandles /\ use(w) /\ pc' = pc
  \/ \E w \in Live : nW < MaxHandles /\ rest(w) /\ pc' = pc
  \/ \E w \in Live : NextOutcome(w).st.calls <= MaxCalls /\ next(w) /\ pc' = pc

Spec == Init /\ [][Next]_vars

\* w.next() during which the producer is invoked and throws
nextThrows(w) ==
  LET o == request(Faulty, w, w)
  IN  /\ o.st.throws > throws
      /\ Returned(o, w)

\* The same operations over a producer of which up to MaxThrows invocations
\* throw.
NextFail ==
  \/ Next
  \/ \E w \in Live :
       /\ throws < MaxThrows
       /\ calls < MaxCalls
       /\ nextThrows(w)
       /\ pc' = pc

SpecFail == Init /\ [][NextFail]_vars

\* The same operations with room for one more wrapper over a shorter producer.
WideProducers == {[i \in 1..k |-> PayloadOf(i)] : k \in 0..WideLen}

InitWide ==
  /\ V \in WideProducers
  /\ Fresh
  /\ pc = "free"

NextWide ==
  \/ \E w \in Live : nW < WideHandles /\ use(w) /\ pc' = pc
  \/ \E w \in Live : nW < WideHandles /\ rest(w) /\ pc' = pc
  \/ \E w \in Live : NextOutcome(w).st.calls <= WideCalls /\ next(w) /\ pc' = pc

SpecWide == InitWide /\ [][NextWide]_vars

\* ------------------------------------------------- methods built on use()
\* The identity of a use() handle that does not outlive the call that made
\* it (collect, head, the probe of asNonEmpty).  Stepping that handle is
\* stepping its cursor in the receiver; when the call returns nothing holds
\* the handle any more and its entry in the receiver's WeakMap goes with it.
Scratch == 0

Forget(st, w) ==
  LET d    == st.descriptors[w]
      keep == (DOMAIN d) \ {Scratch}
  IN  [st EXCEPT !.descriptors[w] = IF keep = {} THEN <<>> ELSE [k \in keep |-> d[k]]]

\* for (const value of x) over the cursor id of wrapper w: next() until it
\* is done, the values seen collected
RECURSIVE forOf(_, _, _, _)
forOf(st, w, id, collected) ==
  LET r == request(st, w, id)
  IN  IF r.res.kind = "value"
        THEN forOf(r.st, w, id, Append(collected, r.res.value))
        ELSE [st |-> r.st, res |-> r.res, collected |-> collected]

\* w.map(transform)
map(w) ==
  /\ nW' = nW + 2
  /\ parent' = [parent EXCEPT ![nW + 1] = w, ![nW + 2] = nW + 1]
  /\ born' = [born EXCEPT ![nW + 1] = Birth("use", w, 0),
                          ![nW + 2] = Birth("map", nW + 1, 0)]
  /\ gen' = [gen EXCEPT ![nW + 1] = Gen("child", 0, TRUE),
                        ![nW + 2] = Gen("map", 0, FALSE)]
  /\ UNCHANGED <<V, gpos, calls, doneCalls, throws, results, descriptors,
                 genDone, started, local, yielded, ended, threw>>

\* w.skip(n).  For n > 0 the wrapper after the new one is kept for the
\* src.rest() the generator calls when it is first resumed.
skip(w, n) ==
  IF n <= 0
    THEN use(w)
    ELSE /\ nW' = nW + 3
         /\ parent' = [parent EXCEPT ![nW + 1] = w, ![nW + 2] = nW + 1,
                                     ![nW + 3] = nW + 1]
         /\ born' = [born EXCEPT ![nW + 1] = Birth("use", w, 0),
                                 ![nW + 2] = Birth("skip", nW + 1, 0)]
         /\ gen' = [gen EXCEPT ![nW + 1] = Gen("child", 0, TRUE),
                               ![nW + 2] = Gen("skip", n, FALSE),
                               ![nW + 3] = Gen("child", 0, TRUE)]
         /\ UNCHANGED <<V, gpos, calls, doneCalls, throws, results, descriptors,
                        genDone, started, local, yielded, ended, threw>>

\* A construction that looks for a first value of the receiver, ps[1], as
\* asNonEmpty() does.
MadeProbing(ps, gs, bs) ==
  LET new   == (nW + 1)..(nW + Len(ps))
      first == request(State, ps[1], Scratch)
  IN  /\ nW' = nW + Len(ps)
      /\ parent' = [x \in Handles |-> IF x \in new THEN ps[x - nW] ELSE parent[x]]
      /\ gen' = [x \in Handles |-> IF x \in new THEN gs[x - nW] ELSE gen[x]]
      /\ born' = [x \in Handles |-> IF x \in new THEN bs[x - nW] ELSE born[x]]
      /\ Stored(Forget(first.st, ps[1]))
      /\ UNCHANGED <<V, yielded, ended, threw>>

\* Wrappers nW + 1 .. nW + Len(ps) constructed, none of them resumed: ps, gs
\* and bs give their parents, their generators and what is known of their
\* making.
Made(ps, gs, bs) ==
  LET new == (nW + 1)..(nW + Len(ps))
  IN  /\ nW' = nW + Len(ps)
      /\ parent' = [x \in Handles |-> IF x \in new THEN ps[x - nW] ELSE parent[x]]
      /\ gen' = [x \in Handles |-> IF x \in new THEN gs[x - nW] ELSE gen[x]]
      /\ born' = [x \in Handles |-> IF x \in new THEN bs[x - nW] ELSE born[x]]
      /\ UNCHANGED <<V, gpos, calls, doneCalls, throws, results, descriptors,
                     genDone, started, local, yielded, ended, threw>>

\* a wrapper nothing is known about yet: the one a generator's src.rest()
\* will construct
Unborn == [how |-> "none", off |-> 0, len |-> 0, own |-> 0, late |-> FALSE]

\* the generator take(n) builds
TakeGen(n, private) == Gen(IF n > 0 THEN "take" ELSE "empty", n, private)

\* w.take(n)
take(w, n) ==
  Made(<<w, nW + 1>>,
       <<Gen("child", 0, TRUE), TakeGen(n, FALSE)>>,
       <<Birth("use", w, 0), Birth("take", nW + 1, 0)>>)

\* w.skipWhile(predicate); the third wrapper is kept for src.rest()
skipWhile(w) ==
  Made(<<w, nW + 1, nW + 1>>,
       <<Gen("child", 0, TRUE), Gen("skipWhile", 0, FALSE), Gen("child", 0, TRUE)>>,
       <<Birth("use", w, 0), Birth("skipWhile", nW + 1, 0), Unborn>>)

\* w.zip(...others): others is a sequence of wrappers.  What is known of the
\* making here is where the own cursor of each of them stood.
zip(w, others) ==
  Made(<<w, nW + 1>>,
       <<Gen("child", 0, TRUE), Gen("zip", others, FALSE)>>,
       <<Birth("use", w, 0),
         Birth("zip", nW + 1,
               [k \in 1..Len(others) |->
                  DescriptorGet(descriptors[others[k]], others[k])])>>)

\* w.scanWith(scanner, init)
scanWith(w) ==
  Made(<<w, nW + 1>>,
       <<Gen("child", 0, TRUE), Gen("scanWith", 0, FALSE)>>,
       <<Birth("use", w, 0), Birth("scanWith", nW + 1, 0)>>)

\* the optional argument of slice(start, end?): <<>> when it is omitted
Omitted == <<>>

Given(end) == <<end>>

\* A slice() that ignores its second argument.
sliceToEnd(w, start, end) == skip(w, start)

\* w.slice(start, end): src = this.skip(start), which nothing but the
\* returned wrapper's generator holds once slice() has returned; then the
\* empty wrapper of from([]), or src.take(end - start).
slice(w, start, end) ==
  LET skipPs == IF start <= 0 THEN <<w>> ELSE <<w, nW + 1, nW + 1>>
      skipGs == IF start <= 0
                  THEN <<Gen("child", 0, TRUE)>>
                  ELSE <<Gen("child", 0, TRUE), Gen("skip", start, TRUE),
                         Gen("child", 0, TRUE)>>
      skipBs == IF start <= 0
                  THEN <<Birth("use", w, 0)>>
                  ELSE <<Birth("use", w, 0), Birth("skip", nW + 1, 0), Unborn>>
      src    == IF start <= 0 THEN nW + 1 ELSE nW + 2
      k      == Len(skipPs)
  IN  IF end = Omitted
        THEN skip(w, start)
      ELSE IF end[1] <= start
        THEN Made(skipPs \o <<0>>,
                  skipGs \o <<Gen("empty", 0, FALSE)>>,
                  skipBs \o <<Birth("from", 0, 0)>>)
        ELSE Made(skipPs \o <<src, nW + k + 1>>,
                  skipGs \o <<Gen("child", 0, TRUE), TakeGen(end[1] - start, FALSE)>>,
                  skipBs \o <<Birth("use", src, 0), Birth("take", nW + k + 1, 0)>>)

\* A collect() that iterates the receiver itself.
CollectCursorOwn(w) == w

\* the cursor collect() iterates: that of this.use()
CollectCursor(w) == Scratch

\* the outcome of w.collect()
CollectOutcome(w) == forOf(State, w, CollectCursor(w), <<>>)

\* w.collect()
collect(w) ==
  LET o == CollectOutcome(w)
  IN  /\ Stored(Forget(o.st, w))
      /\ born' = BornAfter(o.st)
      /\ UNCHANGED <<V, nW, parent, gen, yielded, ended, threw>>

\* the outcome of w.head(): this.use().next()
HeadOutcome(w) == request(State, w, Scratch)

\* w.head()
head(w) ==
  LET o == HeadOutcome(w)
  IN  /\ Stored(Forget(o.st, w))
      /\ born' = BornAfter(o.st)
      /\ UNCHANGED <<V, nW, parent, gen, yielded, ended, threw>>

\* An asNonEmpty() that never throws.
NonEmptyThrowsNever(first) == FALSE

\* if (first.done) throw new TypeError(...)
NonEmptyThrows(first) == first.res.kind = "done"

\* the probe of w.asNonEmpty(): src = this.use(); first = src.next()
NonEmptyProbe(w) == request(State, w, Scratch)

\* w.asNonEmpty(): throws, or returns this.use()
asNonEmpty(w) ==
  LET first == NonEmptyProbe(w)
      after == BornAfter(first.st)
  IN  /\ Stored(Forget(first.st, w))
      /\ IF NonEmptyThrows(first)
           THEN /\ born' = after
                /\ UNCHANGED <<nW, parent, gen>>
           ELSE /\ nW' = nW + 1
                /\ parent' = [parent EXCEPT ![nW + 1] = w]
                /\ born' = [after EXCEPT ![nW + 1] = Birth("asNonEmpty", w, 0)]
                /\ gen' = [gen EXCEPT ![nW + 1] = Gen("child", 0, FALSE)]
      /\ UNCHANGED <<V, yielded, ended, threw>>

NextComb ==
  \/ \E w \in Live :
       Public(w) /\ NextOutcome(w).st.calls <= MaxCalls /\ next(w) /\ pc' = pc
  \/ \E w \in Live :
       Public(w) /\ nW + 2 <= CombHandles /\ map(w) /\ pc' = pc
  \/ \E w \in Live : \E n \in 0..MaxSkip :
       /\ Public(w)
       /\ nW + 3 <= CombHandles
       /\ skip(w, n)
       /\ pc' = pc
  \/ \E w \in Live :
       Public(w) /\ CollectOutcome(w).st.calls <= MaxCalls /\ collect(w) /\ pc' = pc
  \/ \E w \in Live :
       Public(w) /\ HeadOutcome(w).st.calls <= MaxCalls /\ head(w) /\ pc' = pc

\* map(), skip(), collect() and head() on the root and on what they return
SpecComb == Init /\ [][NextComb]_vars

\* use(), rest() and next() together with asNonEmpty()
NextNonEmpty ==
  \/ Next
  \/ \E w \in Live :
       /\ nW < MaxHandles
       /\ NonEmptyProbe(w).st.calls <= MaxCalls
       /\ asNonEmpty(w)
       /\ pc' = pc

SpecNonEmpty == Init /\ [][NextNonEmpty]_vars

\* One method call on a wrapper that may have been stepped before, and the
\* stepping of what it returns.  pc is the call made so far.
NoCall == [op |-> "none", w |-> 0, args |-> <<>>]

Call(op, w, args) == [op |-> op, w |-> w, args |-> args]

\* the wrapper the call returned: the newest one a caller holds
Result == CHOOSE t \in Live : Public(t) /\ \A u \in Live : Public(u) => u <= t

\* The producers wrapped: generators of 0..PipeLen values whose payloads
\* alternate between 1 and 2, starting with either.
PipeProducers ==
  {[i \in 1..k |-> 1 + ((i + first) % 2)] : k \in 0..PipeLen, first \in 0..1}

PipeArgs == -1..PipeArg

InitPipe ==
  /\ V \in PipeProducers
  /\ Fresh
  /\ pc = NoCall

\* the receiver of the call and the room the call needs
Receiver(w) == pc = NoCall /\ Public(w)

NextPipe ==
  \/ \E w \in Live :
       Public(w) /\ NextOutcome(w).st.calls <= PipeCalls /\ next(w) /\ pc' = pc
  \/ \E w \in Live :
       /\ Receiver(w) /\ use(w) /\ nW' <= PipeHandles
       /\ pc' = Call("use", w, <<>>)
  \/ \E w \in Live :
       /\ Receiver(w) /\ rest(w) /\ nW' <= PipeHandles
       /\ pc' = Call("rest", w, <<>>)
  \/ \E w \in Live : \E n \in PipeArgs :
       /\ Receiver(w) /\ take(w, n) /\ nW' <= PipeHandles
       /\ pc' = Call("take", w, <<n>>)
  \/ \E w \in Live : \E n \in PipeArgs :
       /\ Receiver(w) /\ skip(w, n) /\ nW' <= PipeHandles
       /\ pc' = Call("skip", w, <<n>>)
  \/ \E w \in Live : \E start \in PipeArgs :
       \E end \in {Omitted} \cup {Given(e) : e \in PipeArgs} :
         /\ Receiver(w) /\ slice(w, start, end) /\ nW' <= PipeHandles
         /\ pc' = Call("slice", w, <<start>> \o end)
  \/ \E w \in Live :
       /\ Receiver(w) /\ skipWhile(w) /\ nW' <= PipeHandles
       /\ pc' = Call("skipWhile", w, <<>>)
  \/ \E w \in Live :
       /\ Receiver(w) /\ scanWith(w) /\ nW' <= PipeHandles
       /\ pc' = Call("scanWith", w, <<>>)
  \/ /\ pc # NoCall
     /\ CollectOutcome(Result).st.calls <= PipeCalls
     /\ collect(Result)
     /\ pc' = pc

SpecPipe == InitPipe /\ [][NextPipe]_vars

\* zip() on a wrapper, the iterators given to it being wrappers that may
\* have been stepped before, and the stepping of all of them afterwards.
ZipProducers == {[i \in 1..k |-> PayloadOf(i)] : k \in 0..ZipLen}

InitZip ==
  /\ V \in ZipProducers
  /\ Fresh
  /\ pc = NoCall

NextZip ==
  \/ pc = NoCall /\ nW = 1 /\ rest(Root) /\ pc' = pc
  \/ \E w \in Live :
       Public(w) /\ NextOutcome(w).st.calls <= ZipCalls /\ next(w) /\ pc' = pc
  \/ \E w \in Live : \E a, b \in Live :
       \E others \in {<<a>>, <<a, b>>} :
         /\ Receiver(w) /\ Public(a) /\ Public(b)
         /\ zip(w, others) /\ nW' <= ZipHandles
         /\ pc' = Call("zip", w, others)

SpecZip == InitZip /\ [][NextZip]_vars

\* take() on a wrapper of a generator that ends or of one that never does,
\* the receiver stepped before and after, and the returned handle drained.
TakeProducers == {[i \in 1..k |-> PayloadOf(i)] : k \in 0..TakeLen}

\* V is what a generator that ends yields; of one that never ends nothing is
\* listed.
InitTake ==
  /\ V \in TakeProducers
  /\ gpos = 0
  /\ calls = 0
  /\ doneCalls = 0
  /\ throws = 0
  /\ nW = 1
  /\ parent = [w \in Handles |-> 0]
  /\ born = [w \in Handles |-> Unborn]
  /\ \E kind \in {"producer", "endless"} :
       /\ kind = "endless" => V = <<>>
       /\ gen = [w \in Handles |-> IF w = Root THEN Gen(kind, 0, FALSE)
                                                ELSE Gen("none", 0, FALSE)]
  /\ results = [w \in Handles |-> <<>>]
  /\ descriptors = [w \in Handles |-> <<>>]
  /\ genDone = [w \in Handles |-> FALSE]
  /\ started = [w \in Handles |-> FALSE]
  /\ local = [w \in Handles |-> 0]
  /\ yielded = [w \in Handles |-> <<>>]
  /\ ended = [w \in Handles |-> FALSE]
  /\ threw = [w \in Handles |-> FALSE]
  /\ pc = NoCall

\* one step of draining the handle take() returned: its next(), until it
\* reports done.  The cap leaves room for the n values and the end that a
\* drain asks the producer for.
DrainEnabled ==
  /\ pc.op = "take"
  /\ ~ended[Result]
  /\ NextOutcome(Result).st.calls <= TakeCalls + TakeArg + 1

Drain ==
  /\ DrainEnabled
  /\ next(Result)
  /\ pc' = pc

NextTake ==
  \/ NextOutcome(Root).st.calls <= TakeCalls /\ next(Root) /\ pc' = pc
  \/ \E n \in 0..TakeArg :
       /\ Receiver(Root)
       /\ take(Root, n)
       /\ pc' = Call("take", Root, <<n>>)
  \/ Drain

\* Whoever drains a handle goes on calling next() until it reports done:
\* weak fairness of Drain, WF_vars(Drain), written out with the state
\* predicate DrainEnabled for ENABLED <<Drain>>_vars (a step of Drain always
\* changes yielded or ended).
DrainFair == []<>(~DrainEnabled) \/ []<><<Drain>>_vars

SpecTake == InitTake /\ [][NextTake]_vars /\ DrainFair

\* DrainEnabled is the enabling condition of a Drain step
DrainEnabledIsEnabled == DrainEnabled <=> ENABLED <<Drain>>_vars

\* use(), rest() and next() on a wrapper of a generator that ends or of one
\* that never does, every handle being stepped until it reports done.
DrainProducers == {[i \in 1..k |-> PayloadOf(i)] : k \in 0..DrainLen}

InitDrain ==
  /\ V \in DrainProducers
  /\ gpos = 0
  /\ calls = 0
  /\ doneCalls = 0
  /\ throws = 0
  /\ nW = 1
  /\ parent = [w \in Handles |-> 0]
  /\ born = [w \in Handles |-> Unborn]
  /\ \E kind \in {"producer", "endless"} :
       /\ kind = "endless" => V = <<>>
       /\ gen = [w \in Handles |-> IF w = Root THEN Gen(kind, 0, FALSE)
                                                ELSE Gen("none", 0, FALSE)]
  /\ results = [w \in Handles |-> <<>>]
  /\ descriptors = [w \in Handles |-> <<>>]
  /\ genDone = [w \in Handles |-> FALSE]
  /\ started = [w \in Handles |-> FALSE]
  /\ local = [w \in Handles |-> 0]
  /\ yielded = [w \in Handles |-> <<>>]
  /\ ended = [w \in Handles |-> FALSE]
  /\ threw = [w \in Handles |-> FALSE]
  /\ pc = "free"

\* The cap on the producer's invocation counter: room for every value of a
\* producer that ends and for the end each handle asks for.
DrainCalls == DrainLen + DrainHandles

\* handle w can take one more step of a for-of loop over it: it has not
\* reported done
StepEnabled(w) ==
  /\ w \in Live
  /\ ~ended[w]
  /\ NextOutcome(w).st.calls <= DrainCalls

Step(w) ==
  /\ StepEnabled(w)
  /\ next(w)
  /\ pc' = pc

NextDrain ==
  \/ \E w \in Live : nW < DrainHandles /\ use(w) /\ pc' = pc
  \/ \E w \in Live : nW < DrainHandles /\ rest(w) /\ pc' = pc
  \/ \E w \in Live : Step(w)

\* Every handle keeps being stepped until it reports done: weak fairness of
\* Step(w), WF_vars(Step(w)), written out with the state predicate
\* StepEnabled(w) for ENABLED <<Step(w)>>_vars (a step always changes yielded
\* or ended).
StepFair ==
  \A w \in 1..DrainHandles : []<>(~StepEnabled(w)) \/ []<><<Step(w)>>_vars

SpecDrain == InitDrain /\ [][NextDrain]_vars /\ StepFair

\* StepEnabled(w) is the enabling condition of Step(w)
StepEnabledIsEnabled ==
  \A w \in 1..DrainHandles : StepEnabled(w) <=> ENABLED <<Step(w)>>_vars

\* The README's overview (README.md:124-143) as a script, run over the
\* README's producer of 0, 1, 2, 3, 4 and over its shorter versions.
ReadmeProducers == {[i \in 1..k |-> i - 1] : k \in 0..ReadmeLen}

InitReadme ==
  /\ V \in ReadmeProducers
  /\ Fresh
  /\ pc = "iterate"

\* a spread or for-of over w: one of its next() calls; the script goes on to
\* `then` when that call reports done
Iterate(w, then) ==
  /\ next(w)
  /\ pc' = IF NextOutcome(w).res.kind = "done" THEN then ELSE pc

NextReadme ==
  \/ pc = "iterate"  /\ Iterate(Root, "foo")                 \* [...gen]
  \/ pc = "foo"      /\ use(Root) /\ pc' = "fooLoop"         \* foo(gen.use())
  \/ pc = "fooLoop"  /\ Iterate(ReadmeFoo, "bar")
  \/ pc = "bar"      /\ use(Root) /\ pc' = "barLoop"         \* bar(gen.use())
  \/ pc = "barLoop"  /\ Iterate(ReadmeBar, "base")
  \/ pc = "base"     /\ use(Root) /\ pc' = "discard"         \* base = gen.use()
  \/ pc = "discard"  /\ next(Root) /\ pc' = "discardMore"    \* gen.next()
  \/ pc = "discardMore" /\ next(Root) /\ pc' = "rest"        \* gen.next()
  \/ pc = "rest"     /\ rest(Root) /\ pc' = "restLoop"       \* rest = gen.rest()
  \/ pc = "restLoop" /\ Iterate(ReadmeRest, "restUse")       \* [...rest]
  \/ pc = "restUse"  /\ use(ReadmeRest) /\ pc' = "useLoop"   \* rest.use()
  \/ pc = "useLoop"  /\ Iterate(ReadmeRestUse, "end")        \* [...rest.use()]

SpecReadme == InitReadme /\ [][NextReadme]_vars

\* ------------------------------------------------------- reading the state
\* the objects the producer yields, in its order
Objects == [i \in 1..Len(V) |-> [obj |-> i, val |-> V[i]]]

IsPrefix(s, t) == Len(s) <= Len(t) /\ \A i \in 1..Len(s) : s[i] = t[i]

Drop(s, n) == SubSeq(s, n + 1, Len(s))

\* the cursors wrapper w keeps an offset for: its own and its children's
CursorsOf(w) == {w} \cup {c \in Live : parent[c] = w}

Offset(w, id) == DescriptorGet(descriptors[w], id)

UseOf(p, h) == h \in Live /\ parent[h] = p /\ born[h].how = "use"

RestOf(p, h) == h \in Live /\ parent[h] = p /\ born[h].how = "rest"

\* the index of the producer's output at which wrapper w's sequence starts
RECURSIVE Origin(_)
Origin(w) == IF w = Root THEN 0 ELSE Origin(parent[w]) + born[w].off

Take(s, n) == SubSeq(s, 1, IF n < Len(s) THEN n ELSE Len(s))

\* s from its first element that fails the predicate on
RECURSIVE DropWhile(_)
DropWhile(s) ==
  IF s # <<>> /\ predicate(s[1]) THEN DropWhile(Tail(s)) ELSE s

\* the accumulator after the first i elements of s
RECURSIVE Sum(_, _)
Sum(s, i) == IF i = 0 THEN ScanInit ELSE scanner(Sum(s, i - 1), s[i])

\* what wrapper w iterates: the producer's output for the root; for any other
\* wrapper what the wrapper its generator reads iterates, mapped by map(),
\* without its first n values for skip(n), and from the cursor's first offset
\* on for use() and rest()
RECURSIVE SeqOf(_)
SeqOf(w) ==
  IF w = Root
    THEN Objects
    ELSE LET s == SeqOf(parent[w])
         IN  CASE gen[w].kind = "map"  -> [i \in 1..Len(s) |-> transform(s[i])]
               [] gen[w].kind = "skip" -> Drop(s, gen[w].n)
               [] gen[w].kind = "empty" -> <<>>
               [] gen[w].kind = "take" -> Take(s, gen[w].n)
               [] gen[w].kind = "skipWhile" -> DropWhile(s)
               [] gen[w].kind = "scanWith" -> [i \in 1..Len(s) |-> Number(Sum(s, i))]
               [] OTHER                -> Drop(s, born[w].off)

\* the values held in a history
ValuesOf(a) == [i \in 1..Len(a) |-> a[i].value]

\* the producer has reported done, or had nothing left when it was wrapped
Exhausted == doneCalls > 0 \/ V = <<>>

\* ------------------------------------------------------------------ claims
\* C1: every handle made by use() on the wrapper of a producer yielding V
\* yields, step by step, a prefix of V, and all of V once it reports done,
\* however many such handles exist, whenever they were made and however their
\* steps interleave.
C1_Replay ==
  \A h \in Live : UseOf(Root, h) =>
    /\ IsPrefix(yielded[h], Objects)
    /\ ended[h] => yielded[h] = Objects

\* two drained use() handles, the second made after the producer reported done
C1_Witness ==
  \E a, b \in Live :
    /\ a # b /\ UseOf(Root, a) /\ UseOf(Root, b)
    /\ Len(V) >= 2
    /\ ended[a] /\ ended[b]
    /\ yielded[a] = Objects /\ yielded[b] = Objects
    /\ ~born[a].late /\ born[b].late

\* C2: the producer is asked for index i once, by the first step that reaches
\* it: the values it has yielded are exactly the history, the value-returning
\* calls number the history length, and a request of any cursor whose offset is
\* below the history length returns history[offset] with no producer call.
C2_SinglePull ==
  /\ gpos = Len(results[Root])
  /\ calls - doneCalls = Len(results[Root])
  /\ \A w \in Live : \A id \in CursorsOf(w) :
       Offset(w, id) < Len(results[w]) =>
         LET r == request(State, w, id)
         IN  /\ r.res = results[w][Offset(w, id) + 1]
             /\ r.st.calls = calls
             /\ r.st.gpos = gpos
             /\ r.st.results = results

\* a second cursor has read index 0 after a first one pulled both values
C2_Witness ==
  \E a, b \in Live :
    /\ UseOf(Root, a) /\ UseOf(Root, b)
    /\ Len(yielded[a]) = 2 /\ Len(yielded[b]) = 1
    /\ calls = 2 /\ Len(results[Root]) = 2

\* C3: two handles made by use() on the same wrapper return the same object
\* at each position in every interleaving: the one that is behind gets, with
\* no producer call, the object the other got at that position, and once one
\* of them has reported done the other reports done at the same position.
C3_SameValues ==
  \A p, a, b \in Live : (a # b /\ UseOf(p, a) /\ UseOf(p, b)) =>
    /\ \A k \in 1..Len(yielded[a]) : k <= Len(yielded[b]) => yielded[a][k] = yielded[b][k]
    /\ Len(yielded[a]) < Len(yielded[b]) =>
         /\ NextOutcome(a).res = ValueResult(yielded[b][Len(yielded[a]) + 1])
         /\ NextOutcome(a).st.calls = calls
    /\ ended[a] => Len(yielded[b]) <= Len(yielded[a])
    /\ (ended[a] /\ Len(yielded[b]) = Len(yielded[a])) => NextOutcome(b).res = DoneResult

\* two handles made before the producer was exhausted, one a position ahead
C3_Witness ==
  \E a, b \in Live :
    /\ a # b /\ UseOf(Root, a) /\ UseOf(Root, b)
    /\ ~born[a].late /\ ~born[b].late
    /\ Len(yielded[a]) = 1 /\ Len(yielded[b]) = 2
    /\ ~ended[a] /\ ~ended[b]

\* C4 as claimed: the first step of a handle made by rest() returns the
\* history entry at the offset the maker's own cursor had at the call, or is a
\* fresh pull when that offset was the history length.
C4_Original ==
  \A p, r \in Live : RestOf(p, r) =>
    /\ yielded[r] # <<>> => yielded[r][1] = results[p][born[r].own + 1].value
    /\ (ended[r] /\ yielded[r] = <<>>) => born[r].own = Len(results[p])

\* C4, amended: rest() starts the new cursor at the maker's history length L
\* at the call, which is at least the maker's own cursor offset; the new
\* handle's j-th value is history[L + j - 1] of the maker (its first step
\* returns history[L], pulled fresh if nobody appended it before), and a handle
\* that reports done at its first step was made at the end of the history.
C4_RestFromHistoryLength ==
  \A p, r \in Live : RestOf(p, r) =>
    /\ born[r].off = born[r].len
    /\ born[r].own <= born[r].len
    /\ Offset(p, r) >= born[r].len
    /\ born[r].len + Len(yielded[r]) <= Len(results[p])
    /\ \A j \in 1..Len(yielded[r]) : yielded[r][j] = results[p][born[r].len + j].value
    /\ (ended[r] /\ yielded[r] = <<>>) => born[r].len = Len(results[p])

\* a rest() handle made while the maker's own cursor was behind its history
\* has taken its first step
C4_Witness ==
  \E p, r \in Live :
    /\ RestOf(p, r)
    /\ born[r].own = 0 /\ born[r].len = 1
    /\ Len(yielded[r]) = 1
    /\ yielded[r][1] = Objects[2]

\* C5: for a handle h made by use() on which next() has returned k values and
\* from which nothing else has read, h.rest() yields, step by step, a prefix
\* of h's sequence without its first k values, and all of it once it reports
\* done.
C5_RestAfterK ==
  \A g, h, r \in Live : (UseOf(g, h) /\ RestOf(h, r) /\ born[r].own = born[r].len) =>
    /\ IsPrefix(yielded[r], Drop(SeqOf(h), born[r].own))
    /\ ended[r] => yielded[r] = Drop(SeqOf(h), born[r].own)

\* V has two values, h.next() was called once, h.rest() has been drained
C5_Witness ==
  \E h, r \in Live :
    /\ UseOf(Root, h) /\ RestOf(h, r)
    /\ Len(V) = 2
    /\ born[r].own = 1 /\ born[r].len = 1
    /\ ended[r]
    /\ yielded[r] = <<Objects[2]>>

\* C6: once a handle has been stepped itself and its whole sequence is in its
\* history (read through a descendant), a further rest() on it gives a handle
\* that yields nothing and reports done; use() on it, made at any time, still
\* replays the handle's whole sequence.
C6_RestAfterDrain ==
  \A h, r \in Live :
    /\ (RestOf(h, r) /\ born[r].own >= 1 /\ born[r].len = Len(SeqOf(h))) =>
         /\ yielded[r] = <<>>
         /\ NextOutcome(r).res = DoneResult
    /\ UseOf(h, r) =>
         /\ IsPrefix(yielded[r], SeqOf(h))
         /\ ended[r] => yielded[r] = SeqOf(h)

\* the maker was stepped once, a descendant read the rest, and the rest()
\* handle made then has reported done
C6_Witness ==
  \E h, d, r \in Live :
    /\ d # r /\ parent[d] = h /\ RestOf(h, r)
    /\ Len(V) = 2
    /\ born[r].own = 1 /\ born[r].len = 2
    /\ Len(yielded[h]) = 1 /\ Len(yielded[d]) >= 1
    /\ ended[r] /\ yielded[r] = <<>>

\* C7: once the producer has reported done (or was exhausted when wrapped),
\* a request of any cursor of any wrapper that stands at or beyond the end of
\* the root history reports done and changes neither a history nor a cursor
\* offset.
C7_ExhaustedStays ==
  \A w \in Live : \A id \in CursorsOf(w) :
    (Exhausted /\ Origin(w) + Offset(w, id) >= Len(results[Root])) =>
      LET r == request(State, w, id)
      IN  /\ r.res = DoneResult
          /\ r.st.results = results
          /\ r.st.descriptors = descriptors

\* after a non-empty producer was exhausted, two cursors have reported done,
\* each on a producer call of its own, one of them a handle made afterwards
C7_Witness ==
  \E a, b \in Live :
    /\ a # b /\ ended[a] /\ ended[b]
    /\ born[b].late
    /\ Len(V) >= 1 /\ Len(results[Root]) = Len(V)
    /\ doneCalls >= 2

\* C8 as claimed: after the producer has first reported done it is never
\* invoked again, so it reports done at most once.
C8_Original == doneCalls <= 1

\* C8, amended: the wrapper itself caches no exhaustion: a request at the
\* frontier of the root history invokes the exhausted producer once more and
\* gets done again.  What is cached is the return of a handle's adapter: once
\* the adapter of a use()/rest() handle has seen done, this.gen.next() on that
\* handle reports done and changes nothing, and no step of that handle or of a
\* descendant of it invokes the producer.
C8_AdapterCachesDone ==
  /\ \A id \in CursorsOf(Root) :
       (doneCalls > 0 /\ Offset(Root, id) = Len(results[Root])) =>
         LET r == request(State, Root, id)
         IN  r.res = DoneResult /\ r.st.calls = calls + 1
  /\ \A w \in Live \ {Root} : genDone[w] =>
       /\ gen_next(State, w) = [st |-> State, res |-> DoneResult]
       /\ NextOutcome(w).st.calls = calls
       /\ \A x \in Live : parent[x] = w => NextOutcome(x).st.calls = calls

\* a handle and a descendant of it have both reported done on one single
\* report of the producer
C8_Witness ==
  \E w, x \in Live :
    /\ w # Root /\ parent[x] = w
    /\ genDone[w] /\ ended[w] /\ ended[x]
    /\ doneCalls = 1

C10_HistoryIsPrefix ==
  [][\A w \in Live :
       /\ IsPrefix(ValuesOf(results'[w]), SeqOf(w))
       /\ \A i \in 1..Len(results'[w]) : results'[w][i].kind = "value"
       /\ \/ results'[w] = results[w]
          \/ /\ Len(results[w]) < Len(SeqOf(w))
             /\ results'[w] = Append(results[w], ValueResult(SeqOf(w)[Len(results[w]) + 1]))
    ]_vars

\* the root history holds the producer's whole output, pulled by two cursors
C10_Witness ==
  \E a, b \in Live :
    /\ a # b
    /\ Len(V) = 2
    /\ ValuesOf(results[Root]) = Objects
    /\ yielded[a] = <<Objects[1]>>
    /\ yielded[b] = Objects

\* C11: next() on a wrapper itself steps the wrapper's one primary cursor, and
\* that cursor is single-pass: what next() has returned so far is a prefix of
\* the wrapper's sequence from index 0, it is the whole sequence once next()
\* has reported done, a further next() then reports done again and changes no
\* history and no offset, and a use() handle of the wrapper, made before or
\* after, still yields the whole sequence from index 0.
C11_DirectIsSinglePass ==
  \A w \in Live :
    /\ IsPrefix(yielded[w], SeqOf(w))
    /\ Offset(w, w) = Len(yielded[w])
    /\ ended[w] =>
         /\ yielded[w] = SeqOf(w)
         /\ NextOutcome(w).res = DoneResult
         /\ NextOutcome(w).st.results = results
         /\ NextOutcome(w).st.descriptors = descriptors
    /\ \A h \in Live : (UseOf(w, h) /\ ended[h]) => yielded[h] = SeqOf(w)

\* the root was iterated directly until it reported done; a use() handle made
\* before that has returned both values and one made after it was drained
C11_Witness ==
  \E a, b \in Live :
    /\ a # b /\ UseOf(Root, a) /\ UseOf(Root, b)
    /\ Len(V) = 2
    /\ ended[Root] /\ yielded[Root] = Objects
    /\ ~born[a].late /\ born[b].late
    /\ ended[b]
    /\ yielded[a] = Objects /\ yielded[b] = Objects

C19_Original ==
  \A p, r \in Live :
    (RestOf(p, r) /\ born[r].own = born[r].len /\ yielded[r] = <<>>) =>
      NextOutcome(r).res = DoneResult

\* C19, amended: a handle made by rest() at the end of the maker's history
\* starts at that end; its first step reports done exactly when the maker's
\* sequence has no value at that index, and otherwise returns the value at
\* that index, pulled from the maker's source if nothing has appended it yet.
C19_RestAtEnd ==
  \A p, r \in Live :
    (RestOf(p, r) /\ born[r].own = born[r].len /\ yielded[r] = <<>>) =>
      /\ Offset(p, r) >= born[r].len
      /\ born[r].len >= Len(SeqOf(p)) => NextOutcome(r).res = DoneResult
      /\ born[r].len < Len(SeqOf(p)) =>
           /\ ~ended[r]
           /\ NextOutcome(r).res = ValueResult(SeqOf(p)[born[r].len + 1])

\* rest() on a fresh root, whose cursor and history are both at 0, and the
\* new handle's first step is about to pull the producer's first value
C19_Witness ==
  \E r \in Live :
    /\ RestOf(Root, r)
    /\ born[r].own = 0 /\ born[r].len = 0
    /\ Len(V) = 2
    /\ yielded[r] = <<>>
    /\ results[Root] = <<>>
    /\ NextOutcome(r).res = ValueResult(Objects[1])
    /\ NextOutcome(r).st.calls = calls + 1

\* C20: within one wrapper, a request of cursor c changes no other cursor's
\* offset and changes c's own offset by exactly +1 when it returns a value and
\* not at all when it reports done; use() and rest() change no offset of an
\* existing cursor (rest() only records one for the new identity), and no
\* step and no new cursor changes what a wrapper iterates.
C20_OffsetFrame ==
  [][/\ \A w \in Live : \A c \in CursorsOf(w) :
          LET r == request(State, w, c)
          IN  /\ \A d \in CursorsOf(w) \ {c} :
                   DescriptorGet(r.st.descriptors[w], d) = Offset(w, d)
              /\ r.res.kind = "value" =>
                   DescriptorGet(r.st.descriptors[w], c) = Offset(w, c) + 1
              /\ r.res.kind = "done" =>
                   DescriptorGet(r.st.descriptors[w], c) = Offset(w, c)
              /\ r.res.kind \in {"value", "done"}
     /\ nW' # nW =>
          /\ \A w \in Live : \A c \in CursorsOf(w) :
               DescriptorGet(descriptors'[w], c) = Offset(w, c)
          /\ results' = results
     /\ \A w \in Live : SeqOf(w)' = SeqOf(w)
    ]_vars

\* three cursors over the root stand at three different offsets, one of them
\* made by rest() after the others had moved
C20_Witness ==
  \E a, b \in Live :
    /\ UseOf(Root, a) /\ RestOf(Root, b)
    /\ Offset(Root, Root) = 0
    /\ Offset(Root, a) = 1
    /\ Offset(Root, b) = 2
    /\ born[b].off = 1

\* the cursor of w.next() stands at the frontier of the producer's output: its
\* next step needs a value nobody has pulled yet
AtFrontier(w) == Origin(w) + Offset(w, w) = Len(results[Root])

\* C12 as claimed: a next() during which the producer throws throws itself,
\* appends nothing to any history and moves no offset; and when the latest
\* next() of a wrapper threw and its cursor still stands at the frontier, its
\* next step invokes the producer again.  Stated for every wrapper: the root
\* and the handles made by use() and rest().
C12_Claim ==
  \A w \in Live :
    /\ LET o == request(Faulty, w, w)
       IN  o.st.throws > throws =>
             /\ o.res.kind = "throw"
             /\ o.st.results = results
             /\ o.st.descriptors = descriptors
    /\ (threw[w] /\ AtFrontier(w)) => NextOutcome(w).st.calls = calls + 1

\* C13 as claimed: a request during which the producer throws changes no
\* offset of any cursor and no history; and, while the producer has not
\* reported done, after a next() of cursor x over wrapper w threw, every other
\* cursor c over w that stands at the frontier of the producer's output
\* invokes the producer at its next request.
C13_Claim ==
  \A w \in Live :
    /\ \A c \in CursorsOf(w) :
         LET o == request(Faulty, w, c)
         IN  o.st.throws > throws =>
               /\ o.st.results = results
               /\ o.st.descriptors = descriptors
    /\ \A x, c \in CursorsOf(w) :
         (x # c /\ threw[x] /\ doneCalls = 0
            /\ Origin(w) + Offset(w, c) = Len(results[Root])) =>
           request(State, w, c).st.calls = calls + 1

\* C18 as claimed: of two handles made by rest() on the same wrapper, with the
\* wrapper's own cursor further on at the second call than at the first, the
\* second starts at a strictly later index than the first.
C18_Original ==
  \A h, r1, r2 \in Live :
    (RestOf(h, r1) /\ RestOf(h, r2) /\ r1 < r2 /\ born[r2].own > born[r1].own) =>
      born[r2].off > born[r1].off

\* C18, amended: each rest() starts its handle at the wrapper's history length
\* at the call, so of two rest() handles of one wrapper the second never
\* starts earlier than the first, and it starts strictly later exactly when
\* the history grew between the two calls: always when the own cursor has
\* moved past the first handle's start, not when the own cursor only moved
\* over values another cursor had pulled before the first call.
C18_RestNeverEarlier ==
  \A h, r1, r2 \in Live :
    (RestOf(h, r1) /\ RestOf(h, r2) /\ r1 < r2) =>
      /\ born[r1].off = born[r1].len /\ born[r2].off = born[r2].len
      /\ born[r2].off >= born[r1].off
      /\ born[r2].own > born[r1].off => born[r2].off > born[r1].off
      /\ (born[r2].own > born[r1].own /\ born[r2].own <= born[r1].len
            /\ Offset(h, r1) = born[r1].off
            /\ \A c \in CursorsOf(h) \ {h, r1, r2} : Offset(h, c) <= born[r1].len) =>
           born[r2].off = born[r1].off

\* another cursor had pulled a value, rest() was called, the own cursor then
\* returned that value, rest() was called again: both handles start at 1
C18_Witness ==
  \E d, r1, r2 \in Live :
    /\ UseOf(Root, d) /\ RestOf(Root, r1) /\ RestOf(Root, r2) /\ r1 < r2
    /\ Len(yielded[d]) = 1
    /\ born[r1].own = 0 /\ born[r1].off = 1
    /\ born[r2].own = 1 /\ born[r2].off = 1
    /\ Len(yielded[Root]) = 1

\* the payloads of the values w.next() has returned
PayloadsOf(w) == [i \in 1..Len(yielded[w]) |-> yielded[w][i].val]

\* C17 as claimed: at the end of the README's overview, run over the producer
\* of 0, 1, 2, 3, 4, iterating rest has yielded 2, 3, 4 and iterating
\* rest.use() has yielded 2, 3, 4.
C17_Claim ==
  (pc = "end" /\ Len(V) = ReadmeLen) =>
    /\ PayloadsOf(ReadmeRest) = <<2, 3, 4>>
    /\ PayloadsOf(ReadmeRestUse) = <<2, 3, 4>>

\* what the script gives: gen.rest() was made when the history held all five
\* values, so rest and rest.use() yield nothing
C17_Code ==
  (pc = "end" /\ Len(V) = ReadmeLen) =>
    /\ born[ReadmeRest].off = ReadmeLen
    /\ born[ReadmeRest].own = ReadmeLen
    /\ PayloadsOf(Root) = <<0, 1, 2, 3, 4>>
    /\ PayloadsOf(ReadmeFoo) = <<0, 1, 2, 3, 4>>
    /\ PayloadsOf(ReadmeBar) = <<0, 1, 2, 3, 4>>
    /\ PayloadsOf(ReadmeRest) = <<>>
    /\ PayloadsOf(ReadmeRestUse) = <<>>

\* C14: the first step of a fresh use() cursor of w, which asNonEmpty()
\* probes, reports done exactly when w's sequence is empty, and leaves w's
\* own cursor where it was; asNonEmpty() returns no handle for an empty
\* sequence (it throws); and a handle it returned yields what a use() handle of w yields: step
\* by step a prefix of w's sequence from index 0, all of it once it reports
\* done, the same objects as any use() handle of w.
C14_AsNonEmpty ==
  /\ \A w \in Live :
       LET first == NonEmptyProbe(w)
       IN  /\ first.res = DoneResult <=> SeqOf(w) = <<>>
           /\ first.res.kind \in {"value", "done"}
           /\ DescriptorGet(first.st.descriptors[w], w) = Offset(w, w)
           /\ Offset(w, w) = Len(yielded[w])
  /\ \A h \in Live : born[h].how = "asNonEmpty" =>
       /\ SeqOf(parent[h]) # <<>>
       /\ Offset(parent[h], h) = Len(results[h])
       /\ IsPrefix(yielded[h], SeqOf(parent[h]))
       /\ ended[h] => yielded[h] = SeqOf(parent[h])
       /\ \A u \in Live : UseOf(parent[h], u) =>
            \A k \in 1..Len(yielded[h]) : k <= Len(yielded[u]) => yielded[h][k] = yielded[u][k]

\* the root's own cursor had returned one of two values when asNonEmpty()
\* was called on it; the handle it returned has been drained
C14_Witness ==
  \E h \in Live :
    /\ born[h].how = "asNonEmpty" /\ parent[h] = Root
    /\ Len(V) = 2
    /\ Len(yielded[Root]) = 1
    /\ ended[h] /\ yielded[h] = Objects

\* what iterating w directly from the current state yields, until it is done
DirectRest(w) == forOf(State, w, w, <<>>).collected

\* C15: no method moves its receiver's own cursor.  In every state reached by
\* map(), skip(), collect() and head() calls on any wrapper, by steps of the
\* wrappers map() and skip() returned and by next() on the receivers
\* themselves: a wrapper's own offset is the number of values its own next()
\* has returned, collect() and head() called now would leave it there,
\* and iterating the wrapper directly yields exactly the values of its
\* sequence that its own next() has not returned yet.
C15_ReceiverUntouched ==
  \A w \in Live : Public(w) =>
    /\ Offset(w, w) = Len(yielded[w])
    /\ IsPrefix(yielded[w], SeqOf(w))
    /\ DescriptorGet(CollectOutcome(w).st.descriptors[w], w) = Offset(w, w)
    /\ DescriptorGet(HeadOutcome(w).st.descriptors[w], w) = Offset(w, w)
    /\ CollectOutcome(w).collected = SeqOf(w)
    /\ DirectRest(w) = Drop(SeqOf(w), Len(yielded[w]))

\* the root's own next() has returned one of two values; a map() of the root
\* was drained after that, so the whole output is in the root's history, and
\* iterating the root directly still yields the second value
C15_Witness ==
  \E m \in Live :
    /\ gen[m].kind = "map" /\ parent[parent[m]] = Root
    /\ Len(V) = 2
    /\ Len(yielded[Root]) = 1
    /\ ended[m] /\ Len(yielded[m]) = 2
    /\ Len(results[Root]) = 2
    /\ DirectRest(Root) = <<Objects[2]>>


\* C21: skip(n).collect() on the wrapper of a producer yielding V is V without
\* its first n values when n > 0 (nothing when n >= |V|), and all of V when
\* n <= 0, however far the receiver and the returned handle have been stepped.
C21_SkipCollect ==
  pc.op = "skip" =>
    CollectOutcome(Result).collected =
      Drop(Objects, IF pc.args[1] > 0 THEN pc.args[1] ELSE 0)

\* skip(2) over three values has been collected: the history of the returned
\* handle holds the third value though its own cursor never moved
C21_Witness ==
  /\ pc.op = "skip" /\ pc.args = <<2>>
  /\ Len(V) = 3
  /\ yielded[Result] = <<>>
  /\ ValuesOf(results[Result]) = <<Objects[3]>>


\* C22: take(n).collect() on the wrapper of a producer yielding V is the first
\* min(n, |V|) values of V in order when n > 0, and nothing when n <= 0.
C22_TakeCollect ==
  pc.op = "take" =>
    CollectOutcome(Result).collected =
      IF pc.args[1] > 0 THEN Take(Objects, pc.args[1]) ELSE <<>>

\* take(2) over three values has been collected: the history of the returned
\* handle holds the first two values though its own cursor never moved
C22_Witness ==
  /\ pc.op = "take" /\ pc.args = <<2>>
  /\ Len(V) = 3
  /\ yielded[Result] = <<>>
  /\ ValuesOf(results[Result]) = <<Objects[1], Objects[2]>>


\* the values of s whose index i, counted from 0, satisfies start <= i < end
Window(s, start, end) ==
  SubSeq(s, (IF start > 0 THEN start ELSE 0) + 1, IF end < Len(s) THEN end ELSE Len(s))

\* the handle the call returned iterates exactly the sequence expected: its
\* own steps follow it, and so does collect()
Iterates(expected) ==
  /\ IsPrefix(yielded[Result], expected)
  /\ ended[Result] => yielded[Result] = expected
  /\ CollectOutcome(Result).collected = expected

\* C23 as claimed: slice(start, end) iterates the values of V whose index i
\* satisfies start <= i < end, for every integer start < end; with end
\* omitted what skip(start) iterates; with end <= start nothing.
C23_Original ==
  pc.op = "slice" =>
    LET start == pc.args[1]
    IN  IF Len(pc.args) = 1
          THEN Iterates(Drop(Objects, IF start > 0 THEN start ELSE 0))
        ELSE IF pc.args[2] <= start
          THEN Iterates(<<>>)
          ELSE Iterates(Window(Objects, start, pc.args[2]))

\* C23, amended: for 0 <= start < end slice(start, end) iterates the values
\* of V whose index i satisfies start <= i < end; for start < 0 and
\* start < end it iterates the first end - start values of V (the values of
\* index 0 <= i < end - start); with end omitted it iterates what skip(start)
\* does; with end <= start it iterates nothing.
C23_Slice ==
  pc.op = "slice" =>
    LET start == pc.args[1]
    IN  IF Len(pc.args) = 1
          THEN Iterates(Drop(Objects, IF start > 0 THEN start ELSE 0))
        ELSE IF pc.args[2] <= start
          THEN Iterates(<<>>)
        ELSE IF start >= 0
          THEN Iterates(Window(Objects, start, pc.args[2]))
          ELSE Iterates(Window(Objects, 0, pc.args[2] - start))

\* slice(1, 2) over three values has been drained: it gave the second value
\* only
C23_Witness ==
  /\ pc.op = "slice" /\ pc.args = <<1, 2>>
  /\ Len(V) = 3
  /\ ended[Result]
  /\ yielded[Result] = <<Objects[2]>>


\* C24: skipWhile(p) on the wrapper of a producer yielding V iterates the
\* first value of V for which p is false and every later value of V in order,
\* those that satisfy p included, each once; it iterates nothing when every
\* value of V satisfies p or V is empty.
C24_SkipWhile ==
  pc.op = "skipWhile" =>
    /\ Iterates(DropWhile(Objects))
    /\ (\A i \in 1..Len(V) : predicate(Objects[i])) => DropWhile(Objects) = <<>>
    /\ \A i \in 1..Len(V) :
         (~predicate(Objects[i]) /\ \A j \in 1..(i - 1) : predicate(Objects[j]))
           => DropWhile(Objects) = Drop(Objects, i - 1)

\* skipWhile() over values of which the first and the third satisfy p has
\* been drained: it gave the second and the third
C24_Witness ==
  /\ pc.op = "skipWhile"
  /\ Len(V) = 3
  /\ predicate(Objects[1]) /\ ~predicate(Objects[2]) /\ predicate(Objects[3])
  /\ ended[Result]
  /\ yielded[Result] = <<Objects[2], Objects[3]>>


\* position by position, the tuples of the values of the given sequences, as
\* many as the shortest of them has
Zipped(seqs) ==
  LET n == CHOOSE m \in {Len(seqs[k]) : k \in 1..Len(seqs)} :
             \A k \in 1..Len(seqs) : m <= Len(seqs[k])
  IN  [i \in 1..n |-> Tuple([k \in 1..Len(seqs) |-> seqs[k][i]])]

\* what the iterators given to zip() had left to iterate at the call, after
\* the base
ZipInputs(z) ==
  <<SeqOf(parent[z])>> \o
  [k \in 1..Len(gen[z].n) |-> Drop(SeqOf(gen[z].n[k]), born[z].off[k])]

\* the iterators given to zip() are different ones, and nothing but the zip
\* has stepped them since the call
ZipOwnsOthers(z) ==
  /\ \A j, k \in 1..Len(gen[z].n) : j # k => gen[z].n[j] # gen[z].n[k]
  /\ \A k \in 1..Len(gen[z].n) : Len(yielded[gen[z].n[k]]) = born[z].off[k]

\* C25: a.zip(b1, ..., bm), the b's being different iterators that nothing
\* else steps, yields at position k the tuple [a_k, b1_k, ..., bm_k] and
\* reports done as soon as the base or one of the b's is done: the number of
\* tuples is the minimum of the lengths of a, b1, ..., bm.
C25_Zip ==
  (pc.op = "zip" /\ ZipOwnsOthers(Result)) =>
    /\ IsPrefix(yielded[Result], Zipped(ZipInputs(Result)))
    /\ ended[Result] => yielded[Result] = Zipped(ZipInputs(Result))
    /\ \A k \in 1..Len(ZipInputs(Result)) :
         Len(Zipped(ZipInputs(Result))) <= Len(ZipInputs(Result)[k])
    /\ \E k \in 1..Len(ZipInputs(Result)) :
         Len(Zipped(ZipInputs(Result))) = Len(ZipInputs(Result)[k])

\* a zip of a base of two values with two iterators, the second of which had
\* one value left, has been drained: one tuple
C25_Witness ==
  /\ pc.op = "zip" /\ ZipOwnsOthers(Result)
  /\ Len(ZipInputs(Result)) = 3
  /\ Len(ZipInputs(Result)[1]) = 2
  /\ Len(ZipInputs(Result)[2]) = 2
  /\ Len(ZipInputs(Result)[3]) = 1
  /\ ended[Result]
  /\ yielded[Result] = <<Tuple(<<Objects[1], Objects[1], Objects[2]>>)>>


\* the accumulator after each value of s, in order
Sums(s) == [i \in 1..Len(s) |-> Number(Sum(s, i))]

\* C26: the handle scanWith(scanner, init) returns iterates at least one
\* value whatever the receiver, an empty one included: init first, then the
\* accumulator after each value of the receiver.
C26_Claim ==
  pc.op = "scanWith" =>
    /\ Iterates(<<Number(ScanInit)>> \o Sums(Objects))
    /\ ended[Result] => Len(yielded[Result]) >= 1

\* What the generator of scanWith() does: it yields the accumulator after
\* each value of the receiver and never init itself, so over an empty
\* receiver it iterates nothing.
C26_Code ==
  pc.op = "scanWith" =>
    /\ Iterates(Sums(Objects))
    /\ V = <<>> => CollectOutcome(Result).collected = <<>>


\* the wrappers only a generator's closure holds
Private == {p \in Live : gen[p].private}

\* the generator of wrapper w is resumed in this step: it yields a value,
\* which w's history takes, or it finishes
Resumes(w) == results'[w] # results[w] \/ genDone'[w] # genDone[w]

\* a wrapper held in a closure is stepped in this step: its history or a
\* cursor of its own or its cursor in its parent moves
PrivateStepped ==
  \E p \in Private :
    \/ results'[p] # results[p]
    \/ descriptors'[p] # descriptors[p]
    \/ DescriptorGet(descriptors'[parent[p]], p) # DescriptorGet(descriptors[parent[p]], p)

\* C27: constructing a handle is lazy.  A call of use(), rest(), take(),
\* skip(), slice(), skipWhile() or scanWith() invokes no producer and changes
\* no history and no cursor (rest() records the new cursor's offset, nothing
\* else); the wrappers such a call keeps for the returned handle's generator
\* (the first n values of skip(n), the base of slice()) are stepped only in
\* steps that resume the generator of the returned handle.
C27_Lazy ==
  [][/\ (nW' > nW) =>
            /\ calls' = calls /\ gpos' = gpos /\ doneCalls' = doneCalls
            /\ results' = results
            /\ genDone' = genDone /\ started' = started /\ local' = local
            /\ \A w \in Live : \A id \in DOMAIN descriptors[w] :
                 /\ id \in DOMAIN descriptors'[w]
                 /\ descriptors'[w][id] = descriptors[w][id]
            /\ (pc'.op = "rest" \/ descriptors' = descriptors)
     /\ PrivateStepped => Resumes(Result)
    ]_vars

\* skip(2) over three values: nothing was pulled until the first next() of
\* the returned handle, which pulled all three
C27_Witness ==
  /\ pc.op = "skip" /\ pc.args = <<2>>
  /\ Len(V) = 3
  /\ yielded[Root] = <<>>
  /\ yielded[Result] = <<Objects[3]>>
  /\ Len(results[parent[Result]]) = 3
  /\ calls = 3


\* C28: every cursor offset of a wrapper, recorded or implicit (0 for a cursor
\* never stepped, the history length at the call for one made by rest()), lies
\* between 0 and the wrapper's history length, so that request() reads the
\* history below its length only and never returns an undefined result.
C28_OffsetsInHistory ==
  \A w \in Live :
    /\ \A id \in (DOMAIN descriptors[w]) \cup CursorsOf(w) :
         /\ Offset(w, id) >= 0
         /\ Offset(w, id) <= Len(results[w])
         /\ request(State, w, id).res.kind \in {"value", "done"}
    /\ \A i \in 1..Len(results[w]) : results[w][i].kind = "value"

\* a cursor made by rest() stands at the end of a history of two values, has
\* been stepped there, and a cursor never stepped reads the same history
C28_Witness ==
  \E p, r, u \in Live :
    /\ RestOf(p, r) /\ UseOf(p, u)
    /\ born[r].off = 2
    /\ Offset(p, r) = 2 /\ Len(results[p]) = 2
    /\ ended[r]
    /\ u \notin DOMAIN descriptors[p]


\* C29: for a handle c made from p by use() or rest(), s being the offset its
\* cursor started at (0 for use(), p's history length at the call for
\* rest()), and no producer failure: c's history is the slice of p's history
\* that starts at s, and p's offset for c's identity is s + |c's history|.
C29_ChildIsSlice ==
  \A p, c \in Live : (UseOf(p, c) \/ RestOf(p, c)) =>
    /\ born[c].off = (IF RestOf(p, c) THEN born[c].len ELSE 0)
    /\ born[c].off + Len(results[c]) <= Len(results[p])
    /\ \A j \in 1..Len(results[c]) : results[c][j] = results[p][born[c].off + j]
    /\ Offset(p, c) = born[c].off + Len(results[c])

\* a handle made by rest() after one value and a handle made by use() on the
\* same wrapper have each pulled their first value
C29_Witness ==
  \E p, r, u \in Live :
    /\ RestOf(p, r) /\ UseOf(p, u)
    /\ born[r].off = 1
    /\ Len(results[r]) = 1 /\ results[r][1] = results[p][2]
    /\ Len(results[u]) = 1 /\ results[u][1] = results[p][1]
    /\ Offset(p, r) = 2 /\ Offset(p, u) = 1


\* C30: draining take(n), n > 0, terminates on every receiver, one over a
\* producer that never ends included, and asks the receiver for at most n
\* values: the cursor of take's src never passes n, the handle's next()
\* returns at most n values and then reports done without a producer call,
\* every step of the drain invokes the producer at most once, and it leaves
\* the receiver's history at no more than n entries unless it was longer
\* before.
C30_TakeBounded ==
  /\ [](pc.op = "take" =>
          /\ Offset(Root, parent[Result]) <= pc.args[1]
          /\ Len(results[parent[Result]]) <= pc.args[1]
          /\ Len(results[Result]) <= pc.args[1]
          /\ Len(yielded[Result]) <= pc.args[1]
          /\ Len(yielded[Result]) = pc.args[1] =>
               /\ NextOutcome(Result).res = DoneResult
               /\ NextOutcome(Result).st.calls = calls)
  /\ [][(pc.op = "take" /\ Resumes(Result)) =>
          /\ calls' <= calls + 1
          /\ \/ results'[Root] = results[Root]
             \/ Len(results'[Root]) <= pc.args[1]]_vars
  /\ (pc.op = "take") ~> (pc.op = "take" /\ ended[Result])

\* take(2) on a producer that never ends has been drained: two values, two
\* producer invocations
C30_Witness ==
  /\ gen[Root].kind = "endless"
  /\ pc.op = "take" /\ pc.args = <<2>>
  /\ ended[Result]
  /\ Len(yielded[Result]) = 2
  /\ Len(results[Root]) = 2
  /\ calls = 2


\* how often wrapper b occurs among the iterators given to the zip z
TimesGiven(z, b) == Cardinality({k \in 1..Len(gen[z].n) : gen[z].n[k] = b})

\* the values wrapper b's own cursor has left to iterate
LeftOf(b) == Len(SeqOf(b)) - Offset(b, b)

\* the turns of the zip z's loop on which the base had a value, once z is
\* done: one for every tuple, and one more if an iterator ended the zip
ZipTurns(z) ==
  IF Len(Zipped(ZipInputs(z))) < Len(ZipInputs(z)[1])
    THEN Len(Zipped(ZipInputs(z))) + 1
    ELSE Len(ZipInputs(z)[1])

\* what next() on wrapper b returns when its own cursor stands at offset o
NextAt(b, o) ==
  IF o < Len(SeqOf(b)) THEN ValueResult(SeqOf(b)[o + 1]) ELSE DoneResult

\* C31: zip reads its receiver through a fresh use() cursor and steps the
\* iterators it is given directly.  A step of the zip's generator on which
\* the base has a value calls next() once on every given iterator (so the own
\* cursor of each moves by one while it has a value left), a step on which
\* the base is done calls none, and the receiver's own cursor moves only if
\* the receiver is itself among the given iterators.  Once a.zip(b1, ...,
\* bm), the b's different from a and from each other and stepped by nothing
\* else, has been drained, a's own position is what it was and each b stands
\* behind every value the zip consumed from it: next() on b resumes there.
C31_ZipStepsArguments ==
  /\ [][(pc.op = "zip" /\ Resumes(Result)) =>
          LET z       == Result
              a       == pc.w
              baseHas == Offset(a, parent[z])' = Offset(a, parent[z]) + 1
          IN  /\ baseHas \/ Offset(a, parent[z])' = Offset(a, parent[z])
              /\ TimesGiven(z, a) = 0 => Offset(a, a)' = Offset(a, a)
              /\ \A k \in 1..Len(gen[z].n) :
                   LET b == gen[z].n[k]
                   IN  Offset(b, b)' =
                         Offset(b, b) +
                           (IF ~baseHas THEN 0
                            ELSE IF TimesGiven(z, b) < LeftOf(b)
                              THEN TimesGiven(z, b) ELSE LeftOf(b))]_vars
  /\ []((pc.op = "zip" /\ ended[Result] /\ ZipOwnsOthers(Result)
           /\ TimesGiven(Result, pc.w) = 0) =>
          /\ Offset(pc.w, pc.w) = Len(yielded[pc.w])
          /\ NextOutcome(pc.w).res = NextAt(pc.w, Len(yielded[pc.w]))
          /\ \A k \in 1..Len(gen[Result].n) :
               LET b    == gen[Result].n[k]
                   left == Len(ZipInputs(Result)[k + 1])
                   used == IF ZipTurns(Result) < left THEN ZipTurns(Result) ELSE left
               IN  /\ Offset(b, b) = born[Result].off[k] + used
                   /\ NextOutcome(b).res = NextAt(b, born[Result].off[k] + used))

\* a.zip(b) over two values has been drained, b being another cursor of the
\* same producer: a's own cursor never moved, b's stands behind both values
C31_Witness ==
  /\ pc.op = "zip" /\ ended[Result] /\ ZipOwnsOthers(Result)
  /\ Len(gen[Result].n) = 1
  /\ gen[Result].n[1] # pc.w
  /\ Len(yielded[Result]) = 2
  /\ Offset(pc.w, pc.w) = 0
  /\ yielded[gen[Result].n[1]] = <<>>
  /\ Offset(gen[Result].n[1], gen[Result].n[1]) = 2


\* the index of the producer's output at which the own cursor of w stands
Position(w) == Origin(w) + Offset(w, w)

\* C32: over a producer of n values that ends and never fails, a handle
\* whose cursor stands at offset o and that keeps being stepped returns the
\* n - o values from o on and then reports done, so that every handle that
\* is stepped until done gets there, and collect() returns the whole
\* sequence (V on the root); over a producer that never ends no handle ever
\* reports done.
C32_DrainTerminates ==
  /\ [](gen[Root].kind = "producer" =>
          \A w \in Live :
            /\ Position(w) <= Len(V)
            /\ forOf(State, w, w, <<>>).res = DoneResult
            /\ forOf(State, w, w, <<>>).collected = Drop(Objects, Position(w))
            /\ Len(forOf(State, w, w, <<>>).collected) = Len(V) - Position(w)
            /\ ended[w] => Position(w) = Len(V)
            /\ CollectOutcome(w).res = DoneResult
            /\ CollectOutcome(w).collected = SeqOf(w)
            /\ CollectOutcome(Root).collected = Objects)
  /\ \A w \in 1..DrainHandles :
       (w \in Live /\ gen[Root].kind = "producer") ~> ended[w]
  /\ [](gen[Root].kind = "endless" => \A w \in Live : ~ended[w])

\* over a producer of two values a handle made by rest() at offset 1 has
\* returned one value and then reported done
C32_Witness ==
  \E r \in Live :
    /\ gen[Root].kind = "producer"
    /\ Len(V) = 2
    /\ RestOf(Root, r) /\ born[r].off = 1
    /\ ended[r]
    /\ yielded[r] = <<Objects[2]>>

=============================================================================
